---- MODULE Spec2Model ----
(***************************************************************************)
(* The capybara player controller (src/src/Player.js and its arrow-key     *)
(* revision src/unnamed/part_001) driven by the frame loop of the          *)
(* bootstrap scripts (src/src/main.js, src/unnamed/part_003..005).         *)
(*                                                                         *)
(* Units.  Vertical velocity is counted in steps of 0.05, heights in steps *)
(* of 0.05/60, so that one physics step of 1/60 s adds the velocity to the *)
(* height.  A horizontal component c is kept exactly as the signed number  *)
(* sgn(c) * 2 * c^2 (so 1/sqrt(2) is 1, 1 is 2, 5 is 50, 5/sqrt(2) is 25). *)
(***************************************************************************)
EXTENDS Integers, Sequences, FiniteSets, TLC

\* ------------------------------------------------------------------ bounds
\* Ticks are explored while the body is no higher than MaxY and has fallen no
\* further than MaxFall below its rest height; frames while the host clock is no
\* later than MaxClock milliseconds.
MaxY == 2300
MaxFall == 119
MaxClock == 200
\* Key event sequences are examined up to MaxEvents events.
MaxEvents == 3

\* --------------------------------------------------------- program constants
moveSpeed == 5            \* Player.js:43
JumpDeltaV == 76          \* jumpForce 5 on the capsule's mass (1.309): 3.82
GravityPerStep == 3       \* 9.81 / 60 = 0.16 per world.step()
GroundedSpeed == 2        \* 0.1
AirborneSpeed == 10       \* 0.5
GroundedHeight == 1320    \* 1.1
SpawnY == 1200            \* setTranslation(0, 1, 0)
RestY == 1319             \* ground top 0.1 + capsule half extent 1.0, in contact

Nil == "null"
\* this.currentAction = null
NoAction == [clip |-> Nil, mixer |-> 0]
Variants == {"Player", "Arrows"}   \* src/src/Player.js, src/unnamed/part_001

Abs(n) == IF n < 0 THEN -n ELSE n

\* ------------------------------------------------------------ clip names
Spell(n) ==
  CASE n = "idle" -> <<"i", "d", "l", "e">>
    [] n = "walk" -> <<"w", "a", "l", "k">>
    [] n = "run"  -> <<"r", "u", "n">>
    [] n = "Run"  -> <<"R", "u", "n">>
    [] n = "jump" -> <<"j", "u", "m", "p">>
    [] n = "Idle_Loop" -> <<"I", "d", "l", "e", "_", "L", "o", "o", "p">>
    [] n = "idle_loop" -> <<"i", "d", "l", "e", "_", "l", "o", "o", "p">>
    [] n = "capybara_walk" ->
         <<"c", "a", "p", "y", "b", "a", "r", "a", "_", "w", "a", "l", "k">>

Names == {"idle", "walk", "run", "Run", "jump", "Idle_Loop", "idle_loop",
          "capybara_walk"}

LowerChar(c) ==
  CASE c = "R" -> "r"
    [] c = "I" -> "i"
    [] c = "L" -> "l"
    [] OTHER -> c

\* String.prototype.toLowerCase
ToLowerCase(n) ==
  CHOOSE m \in Names :
    Spell(m) = [i \in DOMAIN Spell(n) |-> LowerChar(Spell(n)[i])]

\* String.prototype.includes
Includes(key, name) ==
  LET k == Spell(key)
      s == Spell(name)
  IN  \E i \in 0..(Len(k) - Len(s)) : SubSeq(k, i + 1, i + Len(s)) = s

\* The clip lists the bootstraps hand to the constructor.
FallbackClips == <<"idle", "walk", "jump">>
LoadedClips == <<"Run", "idle", "walk", "jump">>
ClipLists == {FallbackClips, LoadedClips}

\* Clip lists as a character file names its clips: none at all, names that only
\* contain the canonical ones, no idle clip, and (part_005) the model's clips
\* followed by the bootstrap's own 'idle'.
NamedClipLists ==
  {<<>>,
   <<"Idle_Loop", "capybara_walk", "jump">>,
   <<"capybara_walk", "jump">>,
   <<"Idle_Loop", "capybara_walk", "idle">>}

\* --------------------------------------------------------------- actions
\* this.actions is an object: its keys in insertion order, each with its action.
HasKey(acts, key) == \E i \in DOMAIN acts : acts[i].key = key

ActionAt(acts, key) ==
  LET i == CHOOSE j \in DOMAIN acts : acts[j].key = key IN acts[i].action

\* this.actions[name] = action
SetAction(acts, key, action) ==
  IF HasKey(acts, key)
  THEN [i \in DOMAIN acts |->
          IF acts[i].key = key THEN [key |-> key, action |-> action] ELSE acts[i]]
  ELSE Append(acts, [key |-> key, action |-> action])

\* mixer.clipAction(clip)
ClipAction(mixer, clip) == [clip |-> clip, mixer |-> mixer]

\* Object.keys(this.actions).find(key => key === name || key.includes(name))
FindAnimationName(acts, name) ==
  IF \E i \in DOMAIN acts : acts[i].key = name \/ Includes(acts[i].key, name)
  THEN LET i == CHOOSE j \in DOMAIN acts :
                  /\ acts[j].key = name \/ Includes(acts[j].key, name)
                  /\ \A h \in 1..(j - 1) :
                       ~(acts[h].key = name \/ Includes(acts[h].key, name))
       IN  acts[i].key
  ELSE Nil

\* One playAnimation call on the animation state a = [actions, current, calls].
\* Each call is logged with what it did: "drop" (name not found), "noop"
\* (already current), "play" (no previous action: play only), "fade" (reset,
\* setEffectiveWeight, crossFadeFrom the previous action, play).
LogCall(a, name, found, fx, after) ==
  [a EXCEPT !.current = after,
            !.calls = Append(@, [name |-> name, found |-> found, fx |-> fx,
                                 before |-> a.current, after |-> after])]

\* PlayFound without the "already playing" return.
PlayFoundRestarts(a, name, found) ==
  LET action == ActionAt(a.actions, found)
  IN  IF a.current # NoAction THEN LogCall(a, name, found, "fade", action)
      ELSE LogCall(a, name, found, "play", action)

PlayFound(a, name, found) ==
  LET action == ActionAt(a.actions, found)
  IN  IF a.current = action THEN LogCall(a, name, found, "noop", a.current)
      ELSE IF a.current # NoAction THEN LogCall(a, name, found, "fade", action)
      ELSE LogCall(a, name, found, "play", action)

PlayAnimation(variant, a, name) ==
  LET found == FindAnimationName(a.actions, name)
  IN  IF found = Nil
      THEN LET dropped == LogCall(a, name, Nil, "drop", a.current)
           IN  IF /\ variant = "Arrows"
                  /\ HasKey(a.actions, "idle")
                  /\ a.current # ActionAt(a.actions, "idle")
               THEN PlayFound(dropped, "idle", FindAnimationName(a.actions, "idle"))
               ELSE dropped
      ELSE PlayFound(a, name, found)

\* ------------------------------------------------------------ construction
RECURSIVE StoreClips(_, _, _)
\* animations.forEach(clip => this.actions[clip.name.toLowerCase()] = clipAction(clip))
StoreClips(acts, clips, mixer) ==
  IF clips = <<>> THEN acts
  ELSE StoreClips(SetAction(acts, ToLowerCase(Head(clips)), ClipAction(mixer, Head(clips))),
                  Tail(clips), mixer)

\* part_001 only: idle, walk and jump clips are made up when none is stored.
CreateFallbackAnimations(acts, mixer) ==
  LET a1 == IF ~HasKey(acts, "idle")
            THEN SetAction(acts, "idle", ClipAction(mixer, "idle")) ELSE acts
      a2 == IF ~HasKey(a1, "walk") /\ ~(\E i \in DOMAIN a1 : Includes(a1[i].key, "walk"))
            THEN SetAction(a1, "walk", ClipAction(mixer, "walk")) ELSE a1
      a3 == IF ~HasKey(a2, "jump") /\ ~(\E i \in DOMAIN a2 : Includes(a2[i].key, "jump"))
            THEN SetAction(a2, "jump", ClipAction(mixer, "jump")) ELSE a2
  IN  a3

\* The animation state the constructor leaves: [actions, current, calls, mixer]
\* (mixer: which AnimationMixer this.mixer is, 1 for the constructor's).
SetupAnimations(variant, clips) ==
  LET stored == StoreClips(<<>>, clips, 1)
      acts == IF variant = "Arrows" THEN CreateFallbackAnimations(stored, 1) ELSE stored
      a0 == [actions |-> acts, current |-> NoAction, calls |-> <<>>, mixer |-> 1]
      first == IF variant = "Arrows" THEN acts[1].key ELSE ToLowerCase(clips[1])
  IN  IF Len(clips) = 0
      THEN [actions |-> <<>>, current |-> NoAction, calls |-> <<>>, mixer |-> 1]
      ELSE IF HasKey(acts, "idle") THEN PlayAnimation(variant, a0, "idle")
      ELSE PlayAnimation(variant, a0, first)

\* ----------------------------------------------------------------- vectors
Comp(m) == 2 * m * Abs(m)

\* Movement with else-if chains: the first flag of an axis wins.
MovementFirstFlagWins(k) ==
  [x |-> IF k.a THEN -1 ELSE IF k.d THEN 1 ELSE 0,
   z |-> IF k.w THEN -1 ELSE IF k.s THEN 1 ELSE 0]

\* WASD movement: forward -z, back +z, left -x, right +x.
Movement(k) ==
  [x |-> (IF k.d THEN 1 ELSE 0) - (IF k.a THEN 1 ELSE 0),
   z |-> (IF k.s THEN 1 ELSE 0) - (IF k.w THEN 1 ELSE 0)]

Exact(m) == [x |-> Comp(m.x), z |-> Comp(m.z)]

\* Twice the squared length.
Len2(v) == Abs(v.x) + Abs(v.z)

\* Vector3.normalize: divideScalar(length() || 1)
Normalize(v) ==
  IF Len2(v) = 0 THEN v
  ELSE [x |-> (2 * v.x) \div Len2(v), z |-> (2 * v.z) \div Len2(v)]

MultiplyScalar(v, s) == [x |-> v.x * s * s, z |-> v.z * s * s]

\* HorizontalVelocity without the normalisation of the diagonal.
HorizontalVelocityUnnormalized(variant, k) ==
  MultiplyScalar(Exact(Movement(k)), moveSpeed)

\* The horizontal velocity update() hands to setLinvel.
HorizontalVelocity(variant, k) ==
  LET m == Exact(Movement(k))
  IN  IF variant = "Player"
      THEN IF Len2(m) > 0 THEN MultiplyScalar(Normalize(m), moveSpeed) ELSE m
      ELSE LET n == IF m.x # 0 /\ m.z # 0 THEN Normalize(m) ELSE m
           IN  IF n.x # 0 \/ n.z # 0 THEN MultiplyScalar(n, moveSpeed)
               ELSE [x |-> 0, z |-> 0]

Sign(n) == IF n > 0 THEN 1 ELSE IF n < 0 THEN -1 ELSE 0

\* Math.atan2(x, z) for the eight directions, in eighths of pi * 2 (-3..4).
Atan2(x, z) ==
  CASE Sign(x) = 0  /\ Sign(z) >= 0 -> 0
    [] Sign(x) = 1  /\ Sign(z) = 1  -> 1
    [] Sign(x) = 1  /\ Sign(z) = 0  -> 2
    [] Sign(x) = 1  /\ Sign(z) = -1 -> 3
    [] Sign(x) = 0  /\ Sign(z) = -1 -> 4
    [] Sign(x) = -1 /\ Sign(z) = -1 -> -3
    [] Sign(x) = -1 /\ Sign(z) = 0  -> -2
    [] Sign(x) = -1 /\ Sign(z) = 1  -> -1

\* Heading with the arguments of atan2 swapped.
HeadingSwapped(variant, k, rotY) ==
  LET m == Exact(Movement(k))
  IN  IF Len2(m) = 0 THEN rotY ELSE Atan2(m.z, m.x)

\* Heading that turns back to the initial rotation when nothing moves.
HeadingResets(variant, k, rotY) ==
  LET m == Exact(Movement(k))
  IN  IF Len2(m) = 0 THEN 0 ELSE Atan2(m.x, m.z)

\* The container's rotation about Y after update(): lookAt(position + direction)
\* turns the container's +Z axis to the direction (Player.js), part_001 sets
\* rotation.y = atan2(moveX, moveZ); both leave it alone when nothing moves.
Heading(variant, k, rotY) ==
  LET m == Exact(Movement(k))
      direction == Normalize(HorizontalVelocity(variant, k))
  IN  IF Len2(m) = 0 THEN rotY
      ELSE IF variant = "Player" THEN Atan2(direction.x, direction.z)
      ELSE Atan2(m.x, m.z)

\* Object3D.getWorldDirection: the container's +Z axis as signs (x, z).
WorldDirection(rotY) ==
  CASE rotY = 0  -> [x |-> 0, z |-> 1]
    [] rotY = 1  -> [x |-> 1, z |-> 1]
    [] rotY = 2  -> [x |-> 1, z |-> 0]
    [] rotY = 3  -> [x |-> 1, z |-> -1]
    [] rotY = 4  -> [x |-> 0, z |-> -1]
    [] rotY = -3 -> [x |-> -1, z |-> -1]
    [] rotY = -2 -> [x |-> -1, z |-> 0]
    [] rotY = -1 -> [x |-> -1, z |-> 1]

\* ------------------------------------------------------------------ physics
\* world.step(): gravity, then contact with the ground slab.  A body that moves
\* along the slab may cross its edge (leaves), after which nothing holds it.
StepBody(b, leaves) ==
  LET on == b.onSlab /\ ~leaves
      vy1 == b.vy - GravityPerStep
      y1 == b.y + vy1
  IN  IF on /\ y1 <= RestY
      THEN [b EXCEPT !.y = RestY, !.vy = 0, !.onSlab = on]
      ELSE [b EXCEPT !.y = y1, !.vy = vy1, !.onSlab = on]

CanLeave(b) == b.onSlab /\ b.y = RestY /\ (b.vx # 0 \/ b.vz # 0)

\* --------------------------------------------------------------- update()
\* this.isJumping after update() (before it: was).
IsJumping(variant, was, vy, y, space) ==
  IF variant = "Player" THEN Abs(vy) > AirborneSpeed
  ELSE LET isOnGround == Abs(vy) < GroundedSpeed /\ y < GroundedHeight
       IN  IF isOnGround /\ space THEN TRUE
           ELSE IF isOnGround THEN FALSE
           ELSE was

\* Whether update() applies the jump impulse.
Jumps(variant, vy, y, space) ==
  IF variant = "Player" THEN space /\ Abs(vy) < GroundedSpeed
  ELSE (Abs(vy) < GroundedSpeed /\ y < GroundedHeight) /\ space

\* keys.space after update(): Player.js clears it with the impulse.
SpaceAfter(variant, jumps, space) ==
  IF variant = "Player" /\ jumps THEN FALSE ELSE space

UpdateAnimationState(variant, a, moving, jumping, wasMoving, wasJumping) ==
  IF variant = "Player"
  THEN IF jumping /\ ~wasJumping
       THEN IF HasKey(a.actions, "jump") THEN PlayAnimation(variant, a, "jump") ELSE a
       ELSE IF ~jumping /\ wasJumping
       THEN IF moving
            THEN IF HasKey(a.actions, "run") THEN PlayAnimation(variant, a, "run")
                 ELSE IF HasKey(a.actions, "walk") THEN PlayAnimation(variant, a, "walk")
                 ELSE a
            ELSE IF HasKey(a.actions, "idle") THEN PlayAnimation(variant, a, "idle")
                 ELSE a
       ELSE IF moving /\ ~wasMoving
       THEN IF HasKey(a.actions, "run") THEN PlayAnimation(variant, a, "run")
            ELSE IF HasKey(a.actions, "walk") THEN PlayAnimation(variant, a, "walk")
            ELSE a
       ELSE IF ~moving /\ wasMoving
       THEN IF HasKey(a.actions, "idle") THEN PlayAnimation(variant, a, "idle") ELSE a
       ELSE a
  ELSE IF jumping /\ ~wasJumping THEN PlayAnimation(variant, a, "jump")
       ELSE IF ~jumping /\ wasJumping
       THEN IF moving THEN PlayAnimation(variant, a, "walk")
            ELSE PlayAnimation(variant, a, "idle")
       ELSE IF moving /\ ~wasMoving THEN PlayAnimation(variant, a, "walk")
       ELSE IF ~moving /\ wasMoving THEN PlayAnimation(variant, a, "idle")
       ELSE a

\* Player.js plays the jump action with the impulse.
JumpAnimation(variant, a, jumps) ==
  IF variant = "Player" /\ jumps /\ HasKey(a.actions, "jump")
  THEN PlayAnimation(variant, a, "jump")
  ELSE a

\* -------------------------------------------------------------------- state
VARIABLES
  variant,       \* which revision of the Player class runs
  keys,          \* this.keys
  body,          \* the rigid body: height y, velocity (vx, vy, vz), on the slab or not
  container,     \* this.container: rotation about Y, height, and its child this.mesh
  isMoving,      \* this.isMoving
  isJumping,     \* this.isJumping
  anim,          \* this.actions, this.currentAction and the playAnimation calls of
                 \* the last update() (of the constructor before the first one)
  tick,          \* what the last update() read and did
  spaceHeld,     \* the space bar is physically down
  holdImpulses,  \* jump impulses applied since the space bar went down (0, 1, 2 = more)
  boot,          \* which bootstrap script runs the page
  manager,       \* THREE.LoadingManager: items started and ended, the loads in flight
  game,          \* init() calls waiting for RAPIER.init(), players constructed
  loop,          \* frame callbacks scheduled and running, the host clock, lastTime
  frame          \* the update() calls of the current host frame and, of the last
                 \* animate call, the delta, the mixer updates, whether it
                 \* rendered the scene and which part of its work threw

playerVars == <<keys, body, container, isMoving, isJumping, anim, tick>>
bootVars == <<boot, manager, game, loop, frame>>
vars == <<variant, keys, body, container, isMoving, isJumping, anim, tick,
          spaceHeld, holdImpulses, boot, manager, game, loop, frame>>

NoKeys == [w |-> FALSE, a |-> FALSE, s |-> FALSE, d |-> FALSE, space |-> FALSE]

NoTick == [ran |-> FALSE, vy |-> 0, y |-> SpawnY, keys |-> NoKeys,
           wasMoving |-> FALSE, wasJumping |-> FALSE, impulse |-> FALSE,
           written |-> [x |-> 0, y |-> 0, z |-> 0], mixerUpdates |-> 0]

\* new Player(scene, world, model, animations)
NewPlayer(v, model, clips) ==
  [keys |-> NoKeys,
   body |-> [y |-> SpawnY, vy |-> 0, vx |-> 0, vz |-> 0, onSlab |-> TRUE],
   container |-> [rotY |-> 0, y |-> SpawnY, mesh |-> model],
   isMoving |-> FALSE,
   isJumping |-> FALSE,
   anim |-> SetupAnimations(v, clips),
   tick |-> NoTick]

\* The controller as a record.
Self ==
  [keys |-> keys, body |-> body, container |-> container, isMoving |-> isMoving,
   isJumping |-> isJumping, anim |-> anim, tick |-> tick]

IsPlayer(p) ==
  /\ keys = p.keys
  /\ body = p.body
  /\ container = p.container
  /\ isMoving = p.isMoving
  /\ isJumping = p.isJumping
  /\ anim = p.anim
  /\ tick = p.tick

Becomes(p) ==
  /\ keys' = p.keys
  /\ body' = p.body
  /\ container' = p.container
  /\ isMoving' = p.isMoving
  /\ isJumping' = p.isJumping
  /\ anim' = p.anim
  /\ tick' = p.tick

\* The bootstrap scripts: src/src/main.js, src/unnamed/part_003, part_004, part_005.
Boots == {"main", "part_003", "part_004", "part_005"}
ManagedBoots == {"part_004", "part_005"}

\* The loads the managed bootstraps start besides the character model:
\* three environment models and four animation clips.
OtherLoads == 7

NoManager == [total |-> 0, loaded |-> 0, primary |-> "none", legacy |-> "none",
              others |-> 0]

\* The script's top level: every load is started at once on the one manager.
StartedManager == [total |-> OtherLoads + 1, loaded |-> 0, primary |-> "pending",
                   legacy |-> "none", others |-> OtherLoads]

NoLoop == [pending |-> 0, running |-> 0, clock |-> 0, lastTime |-> 0]
NoFrame == [updates |-> 0, called |-> FALSE, delta |-> 0, mixerUpdates |-> 0,
            mixerTime |-> 0, rendered |-> FALSE, threw |-> "none"]

\* Which asset path holds a valid character model.
Assets == {"primary", "legacy", "none"}

\* The bootstrap's globals: fired (the page event was delivered), inits (init()
\* calls waiting for RAPIER.init()), players (Player objects constructed so far),
\* asset (the environment: where a valid model is), model (capybaraModel),
\* loading and clipLoads (part_003's loadModels: its stage, animation loads left),
\* display and content (the loading element: its style.display, and whether it
\* carries the loading text or the error message), failed (a startup failed),
\* failsafe (part_003's 5-second timer).
NoGame == [fired |-> FALSE, inits |-> 0, players |-> 0, asset |-> "none",
           model |-> "none", loading |-> "none", clipLoads |-> 0,
           display |-> "block", content |-> "loading", failed |-> FALSE,
           failsafe |-> "none"]

\* The controller on its own: constructed, its update() driven once per Tick.
Init ==
  /\ \E v \in Variants, clips \in ClipLists :
       variant = v /\ IsPlayer(NewPlayer(v, "placeholder", clips))
  /\ spaceHeld = FALSE
  /\ holdImpulses = 0
  /\ boot = "none"
  /\ manager = NoManager
  /\ game = [NoGame EXCEPT !.fired = TRUE, !.players = 1, !.model = "placeholder"]
  /\ loop = NoLoop
  /\ frame = NoFrame

\* ------------------------------------------------------------ key handlers
\* The e.key values the host delivers.  The jumping behaviour is explored with
\* forward, right and the space bar (JumpKeys), the movement and the key handlers
\* with every direction key, upper case, the arrow keys and an unbound key
\* (MoveKeys).
JumpKeys == {"w", "d", " "}
MoveKeys == {"w", "a", "s", "d", "W", "ArrowUp", "ArrowLeft", "ArrowDown",
             "ArrowRight", "q"}

\* e.key.toLowerCase()
KeyToLowerCase(k) ==
  CASE k = "W" -> "w"
    [] k = "ArrowUp" -> "arrowup"
    [] k = "ArrowLeft" -> "arrowleft"
    [] k = "ArrowDown" -> "arrowdown"
    [] k = "ArrowRight" -> "arrowright"
    [] OTHER -> k

\* The flag a key event writes, Nil when it writes none.
FlagOf(v, k) ==
  IF v = "Player"
  THEN CASE KeyToLowerCase(k) = "w" -> "w"
         [] KeyToLowerCase(k) = "a" -> "a"
         [] KeyToLowerCase(k) = "s" -> "s"
         [] KeyToLowerCase(k) = "d" -> "d"
         [] KeyToLowerCase(k) = " " -> "space"
         [] OTHER -> Nil
  ELSE CASE k = "w" \/ k = "ArrowUp" -> "w"
         [] k = "a" \/ k = "ArrowLeft" -> "a"
         [] k = "s" \/ k = "ArrowDown" -> "s"
         [] k = "d" \/ k = "ArrowRight" -> "d"
         [] k = " " -> "space"
         [] OTHER -> Nil

\* SetFlag as a switch whose cases fall through: every flag is written.
SetEveryFlag(ks, flag, value) ==
  IF flag = Nil THEN ks ELSE [f \in DOMAIN ks |-> value]

SetFlag(ks, flag, value) == IF flag = Nil THEN ks ELSE [ks EXCEPT ![flag] = value]

\* onKeyDown(e); the host repeats the event while the key stays down.
KeyDown(k) ==
  /\ game.players > 0
  /\ keys' = SetFlag(keys, FlagOf(variant, k), TRUE)
  /\ spaceHeld' = (spaceHeld \/ k = " ")
  /\ holdImpulses' = IF k = " " /\ ~spaceHeld THEN 0 ELSE holdImpulses
  /\ UNCHANGED <<variant, body, container, isMoving, isJumping, anim, tick>>
  /\ UNCHANGED bootVars

\* onKeyUp(e)
KeyUp(k) ==
  /\ game.players > 0
  /\ keys' = SetFlag(keys, FlagOf(variant, k), FALSE)
  /\ spaceHeld' = (spaceHeld /\ k # " ")
  /\ holdImpulses' = IF k = " " THEN 0 ELSE holdImpulses
  /\ UNCHANGED <<variant, body, container, isMoving, isJumping, anim, tick>>
  /\ UNCHANGED bootVars

\* ------------------------------------------------------------------ update()
\* The velocity with the vertical component dropped.
LinvelWithoutVertical(h, velocity) == [x |-> h.x, y |-> 0, z |-> h.z]

\* The velocity update() hands to setLinvel: the horizontal velocity h and the
\* vertical velocity read from the body.
Linvel(h, velocity) == [x |-> h.x, y |-> velocity.vy, z |-> h.z]

\* SyncPosition that leaves the container where it was.
SyncPositionSkipped(c, b) == c

\* this.container.position.set(position.x, position.y, position.z) with the
\* body's translation.
SyncPosition(c, b) == [c EXCEPT !.y = b.y]

\* player.update(delta) on controller p, whose body the physics step left as b.
Update(v, p, b) ==
  LET velocity == b
      space == p.keys.space
      h == HorizontalVelocity(v, p.keys)
      moving == Len2(Exact(Movement(p.keys))) > 0
      jumping == IsJumping(v, p.isJumping, velocity.vy, velocity.y, space)
      jumps == Jumps(v, velocity.vy, velocity.y, space)
      a0 == [p.anim EXCEPT !.calls = <<>>]
      a1 == UpdateAnimationState(v, a0, moving, jumping, p.isMoving, p.isJumping)
      a2 == JumpAnimation(v, a1, jumps)
      written == Linvel(h, velocity)
  IN  [keys |-> [p.keys EXCEPT !.space = SpaceAfter(v, jumps, space)],
       body |-> [b EXCEPT !.vx = written.x, !.vz = written.z,
                          !.vy = written.y + (IF jumps THEN JumpDeltaV ELSE 0)],
       container |-> SyncPosition([p.container EXCEPT
                                     !.rotY = Heading(v, p.keys, p.container.rotY)], b),
       isMoving |-> moving,
       isJumping |-> jumping,
       anim |-> a2,
       tick |-> [ran |-> TRUE, vy |-> velocity.vy, y |-> velocity.y, keys |-> p.keys,
                 wasMoving |-> p.isMoving, wasJumping |-> p.isJumping,
                 impulse |-> jumps,
                 written |-> written,
                 mixerUpdates |-> 1]]

\* One frame of the running game: physicsWorld.update(), then player.update(delta).
Tick ==
  /\ body.y >= RestY - MaxFall
  /\ body.y <= MaxY
  /\ \E leaves \in {FALSE, CanLeave(body)} :
       LET p == Update(variant, Self, StepBody(body, leaves))
       IN  /\ Becomes(p)
           /\ holdImpulses' = IF p.tick.impulse /\ holdImpulses < 2
                              THEN holdImpulses + 1 ELSE holdImpulses
  /\ UNCHANGED <<variant, spaceHeld>>
  /\ UNCHANGED bootVars

Next ==
  \/ \E k \in JumpKeys : KeyDown(k)
  \/ \E k \in JumpKeys : KeyUp(k)
  \/ Tick

Spec == Init /\ [][Next]_vars

NextMove ==
  \/ \E k \in MoveKeys : KeyDown(k)
  \/ \E k \in MoveKeys : KeyUp(k)
  \/ Tick

SpecMove == Init /\ [][NextMove]_vars

\* The controller constructed with the clips of a character file, walked and
\* jumped.
ClipKeys == {"w", " "}

InitClips ==
  /\ \E v \in Variants, clips \in NamedClipLists :
       variant = v /\ IsPlayer(NewPlayer(v, "placeholder", clips))
  /\ spaceHeld = FALSE
  /\ holdImpulses = 0
  /\ boot = "none"
  /\ manager = NoManager
  /\ game = [NoGame EXCEPT !.fired = TRUE, !.players = 1, !.model = "placeholder"]
  /\ loop = NoLoop
  /\ frame = NoFrame

NextClips ==
  \/ \E k \in ClipKeys : KeyDown(k)
  \/ \E k \in ClipKeys : KeyUp(k)
  \/ Tick

SpecClips == InitClips /\ [][NextClips]_vars

\* ---------------------------------------------------------------- bootstrap
\* Milliseconds at which Math.min((time - lastTime) / 1000, 0.1) caps the delta.
MaxDelta == 100

Min(a, b) == IF a < b THEN a ELSE b

\* The host's gaps between two frame timestamps, in milliseconds: a display frame,
\* and a pause longer than the cap.
FrameGaps == {40, 150}

BootKeys == {"w"}

\* The clips the bootstrap hands to the constructor: main.js and part_003 build
\* idle, walk and jump themselves, part_004 and part_005 pass what was loaded and at
\* least an idle clip.
BootClips(b) ==
  IF b \in ManagedBoots THEN ClipLists \cup {<<"idle">>} ELSE {FallbackClips}

\* The page starts: the script's top level has run.
InitBoot ==
  /\ variant \in Variants
  /\ IsPlayer(NewPlayer(variant, "placeholder", FallbackClips))
  /\ spaceHeld = FALSE
  /\ holdImpulses = 0
  /\ boot \in Boots
  /\ manager = IF boot \in ManagedBoots THEN StartedManager ELSE NoManager
  /\ \E asset \in Assets :
       game = [NoGame EXCEPT !.asset = asset,
                             !.failsafe = IF boot = "part_003" THEN "armed" ELSE @]
  /\ loop = NoLoop
  /\ frame = NoFrame

\* LoadingManager.itemEnd: counts the item and calls onLoad when every started
\* item has ended; onLoad hides the loading element and calls init(), which
\* waits for RAPIER.init().
\* part_004 guards the call with loadingFailed, which nothing ever sets.
ItemEnd(m, g) ==
  LET m1 == [m EXCEPT !.loaded = m.loaded + 1]
      loadingFailed == FALSE
  IN  [manager |-> m1,
       game |-> IF m1.loaded = m1.total /\ ~loadingFailed
                THEN [g EXCEPT !.inits = g.inits + 1, !.display = "none"] ELSE g]

\* LoadingManager.itemStart
ItemStart(m) == [m EXCEPT !.total = m.total + 1]

\* window 'load' (main.js) or DOMContentLoaded (part_003, which first shows the
\* loading element): the game starts and waits for RAPIER.init().
PageEvent ==
  /\ boot \notin ManagedBoots
  /\ ~game.fired
  /\ game' = [game EXCEPT !.fired = TRUE, !.inits = game.inits + 1,
                          !.display = IF boot = "part_003" THEN "block" ELSE @]
  /\ UNCHANGED <<variant, spaceHeld, holdImpulses, boot, manager, loop, frame>>
  /\ UNCHANGED playerVars

\* An environment or animation load ends, loaded or failed.
OtherLoadEnds ==
  /\ boot \in ManagedBoots
  /\ loop.running = 0
  /\ manager.others > 0
  /\ LET r == ItemEnd([manager EXCEPT !.others = manager.others - 1], game)
     IN  manager' = r.manager /\ game' = r.game
  /\ UNCHANGED <<variant, spaceHeld, holdImpulses, boot, loop, frame>>
  /\ UNCHANGED playerVars

\* The character load ends.  Loaded: nothing more is started.  Failed: the error
\* callback resolves the promise with null and its then() starts the legacy load,
\* before (early) or after the loader counts the failed item as ended.
PrimaryLoadEnds(ok, early) ==
  /\ boot \in ManagedBoots
  /\ loop.running = 0
  /\ manager.primary = "pending"
  /\ ok = (game.asset = "primary")
  /\ LET m0 == [manager EXCEPT !.primary = IF ok THEN "loaded" ELSE "failed",
                               !.legacy = IF ok THEN "none" ELSE "pending"]
         r == IF ok THEN ItemEnd(m0, [game EXCEPT !.model = "model"])
              ELSE IF early THEN ItemEnd(ItemStart(m0), game)
              ELSE LET e == ItemEnd(m0, game)
                   IN  [manager |-> ItemStart(e.manager), game |-> e.game]
     IN  manager' = r.manager /\ game' = r.game
  /\ UNCHANGED <<variant, spaceHeld, holdImpulses, boot, loop, frame>>
  /\ UNCHANGED playerVars

\* The legacy character load ends, loaded or failed.
LegacyLoadEnds ==
  /\ boot \in ManagedBoots
  /\ loop.running = 0
  /\ manager.legacy = "pending"
  /\ LET r == ItemEnd([manager EXCEPT !.legacy = "ended"],
                      IF game.asset = "legacy" THEN [game EXCEPT !.model = "model"]
                      ELSE game)
     IN  manager' = r.manager /\ game' = r.game
  /\ UNCHANGED <<variant, spaceHeld, holdImpulses, boot, loop, frame>>
  /\ UNCHANGED playerVars

\* requestAnimationFrame as the last statement of animate: not reached when
\* the work before it threw.
RequestAnimationFrameLast(l, threw) ==
  IF threw THEN l ELSE [l EXCEPT !.pending = l.pending + 1]

\* requestAnimationFrame(animate), the first statement of animate: one more
\* callback is scheduled whether or not the work after it throws.
RequestAnimationFrame(l, threw) == [l EXCEPT !.pending = l.pending + 1]

\* animate(time) on controller p (players of them constructed so far):
\* requestAnimationFrame(animate), the delta, lastTime, then, when there is a
\* player, the physics step, player.update(delta) and player.mixer.update(delta).
\* The frame records the mixer.update calls made and the time they advanced.
Animate(time, p, players, updates) ==
  LET delta == Min(time - loop.lastTime, MaxDelta)
  IN  /\ loop' = [RequestAnimationFrame(loop, FALSE) EXCEPT
                    !.running = IF loop.running > 0 THEN loop.running - 1 ELSE 0,
                    !.lastTime = time]
      /\ IF players > 0
         THEN \E leaves \in {FALSE, CanLeave(p.body)} :
              \E q \in {Update(variant, p, StepBody(p.body, leaves))} :
                LET mixerUpdates == q.tick.mixerUpdates + 1
                IN  /\ Becomes(q)
                    /\ holdImpulses' = IF q.tick.impulse /\ holdImpulses < 2
                                       THEN holdImpulses + 1 ELSE holdImpulses
                    /\ frame' = [updates |-> updates + 1, called |-> TRUE,
                                 delta |-> delta, mixerUpdates |-> mixerUpdates,
                                 mixerTime |-> mixerUpdates * delta,
                                 rendered |-> TRUE, threw |-> "none"]
         ELSE /\ Becomes(p)
              /\ holdImpulses' = holdImpulses
              /\ frame' = [updates |-> updates, called |-> FALSE, delta |-> delta,
                           mixerUpdates |-> 0, mixerTime |-> 0,
                           rendered |-> TRUE, threw |-> "none"]

\* The model init() hands to the constructor: main.js and part_003 make the
\* placeholder, part_004 and part_005 make it when no model was loaded.
InitModel(b, g) ==
  IF b \in ManagedBoots /\ g.model # "none" THEN g.model ELSE "placeholder"

\* RAPIER.init() resolved: the rest of init() (startGame, initGame) runs: a new
\* physics world, player = new Player(...), animate(0).  main.js then hides the
\* loading element; in part_003 the page event's handler hides it and calls
\* loadModels(), which starts the character load.
InitResumes ==
  /\ loop.running = 0
  /\ game.inits > 0
  /\ game' = [game EXCEPT !.inits = game.inits - 1, !.players = game.players + 1,
                          !.model = InitModel(boot, game),
                          !.loading = IF boot = "part_003" THEN "primary" ELSE @,
                          !.display = IF boot \in ManagedBoots THEN @ ELSE "none"]
  /\ \E clips \in BootClips(boot) :
       \E p \in {NewPlayer(variant, InitModel(boot, game), clips)} :
         Animate(0, p, game.players + 1, 0)
  /\ UNCHANGED <<variant, spaceHeld, boot, manager>>

\* The animations a loaded character model may carry, and the names of the first
\* clip of a loaded animation file.
ModelClips == {<<>>, LoadedClips}
FileClipNames == {"idle", "Run"}

\* The animation loads loadModels starts: idle, walk, run, jump.
ClipLoads == 4

\* loadModels, the model was loaded: the player's mesh is replaced and, when the
\* model carries animations, a new mixer is made, their actions are stored over
\* the player's and 'idle' is played.
ReplaceModel(v, p, clips) ==
  LET a1 == [p.anim EXCEPT !.mixer = 2, !.actions = StoreClips(@, clips, 2)]
  IN  [p EXCEPT !.container.mesh = "model",
                !.anim = IF Len(clips) = 0 THEN p.anim
                         ELSE IF HasKey(a1.actions, "idle")
                         THEN PlayAnimation(v, a1, "idle")
                         ELSE a1]

\* part_003, loadModels: the character load ends.  Failed: the legacy load starts.
LoadModelsPrimaryEnds ==
  /\ boot = "part_003"
  /\ loop.running = 0
  /\ game.loading = "primary"
  /\ IF game.asset = "primary"
     THEN /\ \E clips \in ModelClips : Becomes(ReplaceModel(variant, Self, clips))
          /\ game' = [game EXCEPT !.model = "model", !.loading = "clips",
                                  !.clipLoads = ClipLoads]
     ELSE /\ game' = [game EXCEPT !.loading = "legacy"]
          /\ UNCHANGED playerVars
  /\ UNCHANGED <<variant, spaceHeld, holdImpulses, boot, manager, loop, frame>>

\* part_003, loadModels: the legacy load ends; then the environment and the
\* animation loads start (the environment models touch the scene only).
LoadModelsLegacyEnds ==
  /\ boot = "part_003"
  /\ loop.running = 0
  /\ game.loading = "legacy"
  /\ IF game.asset = "legacy"
     THEN /\ \E clips \in ModelClips : Becomes(ReplaceModel(variant, Self, clips))
          /\ game' = [game EXCEPT !.model = "model", !.loading = "clips",
                                  !.clipLoads = ClipLoads]
     ELSE /\ game' = [game EXCEPT !.loading = "clips", !.clipLoads = ClipLoads]
          /\ UNCHANGED playerVars
  /\ UNCHANGED <<variant, spaceHeld, holdImpulses, boot, manager, loop, frame>>

\* mixer.clipAction of the first clip of a loaded animation file.
FileClipAction(mixer, name) == [clip |-> name, mixer |-> mixer, file |-> TRUE]

\* part_003, loadModels: an animation load ends, failed (ok false) or with a clip
\* of the given name, whose action is stored in the player's actions.
LoadModelsClipEnds(ok, name) ==
  /\ boot = "part_003"
  /\ loop.running = 0
  /\ game.loading = "clips"
  /\ game.clipLoads > 0
  /\ game' = [game EXCEPT !.clipLoads = game.clipLoads - 1,
                          !.loading = IF game.clipLoads = 1 THEN "done" ELSE @]
  /\ anim' = IF ok
             THEN [anim EXCEPT !.actions = SetAction(@, ToLowerCase(name),
                                                     FileClipAction(anim.mixer, name))]
             ELSE anim
  /\ UNCHANGED <<keys, body, container, isMoving, isJumping, tick>>
  /\ UNCHANGED <<variant, spaceHeld, holdImpulses, boot, manager, loop, frame>>

\* The host begins a frame at a later timestamp: every callback scheduled so far
\* will run in it.
FrameBegins ==
  /\ loop.running = 0
  /\ loop.pending > 0
  /\ \E gap \in FrameGaps :
       /\ loop.clock + gap <= MaxClock
       /\ loop' = [loop EXCEPT !.clock = loop.clock + gap, !.running = loop.pending,
                               !.pending = 0]
  /\ frame' = [frame EXCEPT !.updates = 0, !.called = FALSE]
  /\ UNCHANGED <<variant, spaceHeld, holdImpulses, boot, manager, game>>
  /\ UNCHANGED playerVars

\* The host runs one of the frame's callbacks: animate(timestamp).
RunCallback ==
  /\ loop.running > 0
  /\ body.y >= RestY - MaxFall
  /\ body.y <= MaxY
  /\ Animate(loop.clock, Self, game.players, frame.updates)
  /\ UNCHANGED <<variant, spaceHeld, boot, manager, game>>

\* The parts of a frame's work that may throw: physicsWorld.update(),
\* player.update(delta), updateCamera().
Stages == {"step", "update", "camera"}

\* The bootstraps whose animate wraps the work in try/catch.
CatchingBoots == {"main", "part_003", "part_004"}

\* The host runs a callback whose work throws at the given stage: the physics
\* step throws before it changes the body; update() throws at its first
\* statement, after the step; updateCamera() throws after update().  The
\* statements of the work after the throw are skipped; the scene is rendered
\* when animate catches the error.
RunCallbackThrows(stage) ==
  /\ loop.running > 0
  /\ game.players > 0
  /\ body.y >= RestY - MaxFall
  /\ body.y <= MaxY
  /\ LET delta == Min(loop.clock - loop.lastTime, MaxDelta)
     IN  /\ loop' = [RequestAnimationFrame(loop, TRUE) EXCEPT
                       !.running = loop.running - 1, !.lastTime = loop.clock]
         /\ \E leaves \in {FALSE, CanLeave(body)} :
            \E q \in {Update(variant, Self, StepBody(body, leaves))} :
              /\ Becomes(CASE stage = "step" -> Self
                            [] stage = "update" ->
                                 [Self EXCEPT !.body = StepBody(body, leaves)]
                            [] stage = "camera" -> q)
              /\ holdImpulses' = IF stage = "camera" /\ q.tick.impulse
                                    /\ holdImpulses < 2
                                 THEN holdImpulses + 1 ELSE holdImpulses
              /\ frame' = [updates |-> frame.updates
                                        + (IF stage = "camera" THEN 1 ELSE 0),
                           called |-> stage # "step",
                           delta |-> delta,
                           mixerUpdates |-> IF stage = "camera" THEN 1 ELSE 0,
                           mixerTime |-> IF stage = "camera" THEN delta ELSE 0,
                           rendered |-> boot \in CatchingBoots,
                           threw |-> stage]
  /\ UNCHANGED <<variant, spaceHeld, boot, manager, game>>

NextBoot ==
  \/ PageEvent
  \/ OtherLoadEnds
  \/ \E ok \in BOOLEAN : PrimaryLoadEnds(ok, FALSE)
  \/ PrimaryLoadEnds(FALSE, TRUE)
  \/ LegacyLoadEnds
  \/ LoadModelsPrimaryEnds
  \/ LoadModelsLegacyEnds
  \/ LoadModelsClipEnds(FALSE, "idle")
  \/ \E name \in FileClipNames : LoadModelsClipEnds(TRUE, name)
  \/ InitResumes
  \/ FrameBegins
  \/ RunCallback
  \/ \E k \in BootKeys : KeyDown(k) /\ loop.running = 0
  \/ \E k \in BootKeys : KeyUp(k) /\ loop.running = 0

SpecBoot == InitBoot /\ [][NextBoot]_vars

\* RAPIER.init() is rejected, or the construction of the scene, the physics
\* world or the player throws: no player is constructed and no loop started.
\* part_003 (the page event's handler) and part_004, part_005 (init) catch the
\* error and write the message into the loading element; in main.js the try
\* block has ended when the promise's callback runs and nothing catches it.
InitFails ==
  /\ loop.running = 0
  /\ game.inits > 0
  /\ game' = [game EXCEPT !.inits = game.inits - 1, !.failed = TRUE,
                          !.content = IF boot = "main" THEN @ ELSE "error"]
  /\ UNCHANGED <<variant, spaceHeld, holdImpulses, boot, manager, loop, frame>>
  /\ UNCHANGED playerVars

\* part_003: the 5-second timer fires and hides the loading element if it is
\* still shown.
FailsafeFires ==
  /\ loop.running = 0
  /\ game.failsafe = "armed"
  /\ game' = [game EXCEPT !.failsafe = "fired", !.display = "none"]
  /\ UNCHANGED <<variant, spaceHeld, holdImpulses, boot, manager, loop, frame>>
  /\ UNCHANGED playerVars

\* The bootstraps with no key pressed, the startup free to fail and a frame's
\* work free to throw.
NextFaults ==
  \/ PageEvent
  \/ OtherLoadEnds
  \/ \E ok, early \in BOOLEAN : PrimaryLoadEnds(ok, early)
  \/ LegacyLoadEnds
  \/ LoadModelsPrimaryEnds
  \/ LoadModelsLegacyEnds
  \/ \E ok \in BOOLEAN, name \in FileClipNames : LoadModelsClipEnds(ok, name)
  \/ InitResumes
  \/ FrameBegins
  \/ RunCallback
  \/ \E stage \in Stages : RunCallbackThrows(stage)
  \/ InitFails
  \/ FailsafeFires

SpecFaults == InitBoot /\ [][NextFaults]_vars

\* What the page waits for: the page event, the end of a load in flight, the
\* resolution of RAPIER.init(), a callback of a frame that has begun.
Delivery ==
  \/ PageEvent
  \/ OtherLoadEnds
  \/ \E ok, early \in BOOLEAN : PrimaryLoadEnds(ok, early)
  \/ LegacyLoadEnds
  \/ LoadModelsPrimaryEnds
  \/ LoadModelsLegacyEnds
  \/ \E ok \in BOOLEAN, name \in FileClipNames : LoadModelsClipEnds(ok, name)
  \/ InitResumes
  \/ RunCallback

\* The host keeps delivering while something is waited for.  Nothing obliges the
\* user to press keys or the host to go on rendering frames.
BootFairness == WF_vars(Delivery)

SpecBootLive == SpecBoot /\ BootFairness

\* ===================================================================== claims
DirectionFlags == {"w", "a", "s", "d"}
FlagsSet(k) == {f \in DirectionFlags : k[f]}

\* C1: while the space bar is held after one press (repeated key-down events
\* included, no key-up), at most one jump impulse is applied.
C1_OneImpulsePerPress == spaceHeld => holdImpulses <= 1

\* C2: an update applies the jump impulse only if it read the jump flag set, a
\* vertical speed below 0.1 and a height below 1.1 (never in mid-air).
C2_ImpulseOnlyOnGround ==
  tick.impulse =>
    /\ tick.keys.space
    /\ Abs(tick.vy) < GroundedSpeed
    /\ tick.y < GroundedHeight

\* C3: after an update that read a vertical speed above 0.5 the controller is
\* Airborne (isJumping), whatever the movement flags.
C3_FastVerticalIsAirborne ==
  (tick.ran /\ Abs(tick.vy) > AirborneSpeed) => isJumping

\* The action a canonical name resolves to, NoAction when none does.
Resolved(name) ==
  IF FindAnimationName(anim.actions, name) = Nil THEN NoAction
  ELSE ActionAt(anim.actions, FindAnimationName(anim.actions, name))

LandedMoving == tick.ran /\ tick.wasJumping /\ ~isJumping /\ isMoving

\* C4: the update in which the controller leaves Airborne with a non-zero
\* intention ends Moving with run current if a run action is available, else
\* walk if a walk action is available, reached by a cross-fade and never by a cut.
C4_LandingPlaysRunElseWalk ==
  LandedMoving =>
    LET target == IF Resolved("run") # NoAction THEN Resolved("run")
                  ELSE Resolved("walk")
    IN  /\ target # NoAction => anim.current = target
        /\ \A i \in DOMAIN anim.calls :
             anim.calls[i].after # anim.calls[i].before => anim.calls[i].fx = "fade"

\* C5: playAnimation with a name that resolves to the current action does
\* nothing (no reset, no cross-fade, no play, currentAction unchanged), and a
\* second call with the same name adds nothing to the first.
C5_PlayCurrentIsNoop ==
  /\ \A i \in DOMAIN anim.calls :
       LET c == anim.calls[i]
       IN  (c.found # Nil /\ c.before = ActionAt(anim.actions, c.found))
             => (c.fx = "noop" /\ c.after = c.before)
  /\ \A n \in {"idle", "walk", "run", "jump"} :
       LET once == PlayAnimation(variant, [anim EXCEPT !.calls = <<>>], n)
           twice == PlayAnimation(variant, [once EXCEPT !.calls = <<>>], n)
       IN  /\ twice.current = once.current
           /\ twice.actions = once.actions
           /\ \A i \in DOMAIN twice.calls : twice.calls[i].fx \in {"noop", "drop"}

C5_Witness ==
  \E i \in DOMAIN anim.calls :
    /\ anim.calls[i].fx = "noop"
    /\ anim.calls[i].before # NoAction
    /\ anim.calls[i].before = ActionAt(anim.actions, anim.calls[i].found)

\* C6 as stated: with exactly one or exactly two direction flags set, the
\* horizontal velocity written has magnitude moveSpeed.
C6_OneOrTwoFlagsFullSpeed ==
  (tick.ran /\ Cardinality(FlagsSet(tick.keys)) \in {1, 2})
    => Len2([x |-> tick.written.x, z |-> tick.written.z]) = 2 * moveSpeed * moveSpeed

Opposite(k) == (k.w /\ k.s) \/ (k.a /\ k.d)

\* C6 amended: with exactly one direction flag set, or exactly two that are not
\* the two of one axis, the horizontal velocity written has magnitude moveSpeed.
C6_NonOpposingFlagsFullSpeed ==
  (tick.ran /\ Cardinality(FlagsSet(tick.keys)) \in {1, 2} /\ ~Opposite(tick.keys))
    => Len2([x |-> tick.written.x, z |-> tick.written.z]) = 2 * moveSpeed * moveSpeed

C6_Witness ==
  /\ tick.ran
  /\ tick.keys.w /\ tick.keys.a /\ ~tick.keys.s /\ ~tick.keys.d
  /\ tick.written.x = -moveSpeed * moveSpeed
  /\ tick.written.z = -moveSpeed * moveSpeed

\* C7: with both flags of an axis set, the intention and the velocity written
\* on that axis are zero, whatever the other axis does.
C7_OpposingFlagsCancel ==
  tick.ran =>
    /\ (tick.keys.w /\ tick.keys.s)
         => (Movement(tick.keys).z = 0 /\ tick.written.z = 0 /\ body.vz = 0)
    /\ (tick.keys.a /\ tick.keys.d)
         => (Movement(tick.keys).x = 0 /\ tick.written.x = 0 /\ body.vx = 0)

C7_Witness ==
  /\ tick.ran
  /\ tick.keys.w /\ tick.keys.s /\ tick.keys.d /\ ~tick.keys.a
  /\ tick.written.z = 0
  /\ tick.written.x = Comp(moveSpeed)

ForwardOnly == [NoKeys EXCEPT !.w = TRUE]

\* C8: the first update of a fresh controller at rest with only forward down
\* reports Moving, writes the velocity (0, vy, -moveSpeed) and turns the
\* container's heading to -z.
C8_ForwardFromRest ==
  [][(~tick.ran /\ tick'.ran /\ keys = ForwardOnly)
       => /\ isMoving'
          /\ tick'.written = [x |-> 0, y |-> tick'.vy, z |-> -Comp(moveSpeed)]
          /\ body'.vx = 0 /\ body'.vz = -Comp(moveSpeed) /\ body'.vy = tick'.vy
          /\ WorldDirection(container'.rotY) = [x |-> 0, z |-> -1]]_vars

C8_Witness ==
  /\ tick.ran /\ tick.keys = ForwardOnly /\ ~tick.wasMoving
  /\ tick.vy = 0 /\ tick.y = RestY
  /\ isMoving
  /\ body.vz = -Comp(moveSpeed)
  /\ container.rotY = 4


\* C9: in every frame in which the player is updated, the delta handed to
\* player.update is at least 0 and at most 0.1 s (MaxDelta milliseconds), the
\* first frame (animate(0)) and a frame after a long pause included.
C9_DeltaWithinBounds ==
  frame.called => (0 <= frame.delta /\ frame.delta <= MaxDelta)

\* C10: at most one frame callback is scheduled or running at any time, and no
\* host frame calls player.update more than once, in every bootstrap.
C10_OneLoopOneUpdatePerFrame ==
  /\ loop.pending + loop.running <= 1
  /\ frame.updates <= 1

\* The controller's state apart from its key flags.
ControllerState ==
  <<isMoving, isJumping, container, anim.actions, anim.current, anim.mixer>>

\* The step ran animate (and with it update()); the step constructed a player.
AnimateRan == loop'.pending = loop.pending + 1
PlayerConstructed == game'.players # game.players

\* C11: the state of a constructed controller changes only in a step that runs
\* update(), except for the key flags, which a keyboard callback changes without
\* touching the body, the animation state or anything else.
C11_OnlyKeysAndUpdateMutate ==
  [][~PlayerConstructed =>
       /\ ControllerState' # ControllerState => AnimateRan
       /\ (keys' # keys /\ ~AnimateRan)
            => (ControllerState' = ControllerState /\ body' = body /\ anim' = anim)]_vars

\* The names the controller asks playAnimation for.
RequestNames == {"idle", "walk", "run", "jump"}

\* C12: playAnimation with a name that matches no stored action is dropped:
\* currentAction and the actions are unchanged and nothing is reset, faded or
\* started.
C12_UnmatchedNameIsDropped ==
  \A n \in RequestNames :
    FindAnimationName(anim.actions, n) = Nil =>
      LET r == PlayAnimation(variant, [anim EXCEPT !.calls = <<>>], n)
      IN  /\ r.current = anim.current
          /\ r.actions = anim.actions
          /\ \A i \in DOMAIN r.calls : r.calls[i].fx = "drop"

\* C13: a frame that updates the player advances the animation mixer exactly
\* once, by the frame's delta.
C13_MixerOncePerFrame ==
  frame.called => (frame.mixerUpdates = 1 /\ frame.mixerTime = frame.delta)

\* The player shows the loaded character model.
ShowsLoadedModel == game.players > 0 /\ container.mesh = "model"

\* C14: when a valid model is at the character path or at the legacy path, the
\* player eventually shows the loaded model; the placeholder stays only when no
\* path holds one.
C14_LoadedModelShown ==
  (game.asset # "none") ~> ShowsLoadedModel

\* C15: the key handlers match the forward letter in either case: a key-down
\* carrying "w" or "W" sets the forward flag and a key-up carrying either clears
\* it, whatever case the other event of the same key carried.
C15_LetterCaseIgnored ==
  \A k \in {"w", "W"} :
    /\ SetFlag(keys, FlagOf(variant, k), TRUE).w
    /\ ~SetFlag(keys, FlagOf(variant, k), FALSE).w

\* The playAnimation calls of the last update() that changed the current action.
Transitions == {i \in DOMAIN anim.calls : anim.calls[i].after # anim.calls[i].before}

\* C16: an update that starts and ends Airborne and sees the intention change
\* between zero and non-zero makes no animation transition.
C16_NoMoveSwitchWhileAirborne ==
  (tick.ran /\ tick.wasJumping /\ isJumping /\ isMoving # tick.wasMoving)
    => Transitions = {}

\* C17: isJumping turns true, and the jump action becomes current, only in an
\* update that read a vertical speed above the airborne threshold.
C17_AirborneOnlyFromPhysics ==
  tick.ran =>
    /\ (isJumping /\ ~tick.wasJumping) => Abs(tick.vy) > AirborneSpeed
    /\ (\E i \in Transitions : anim.calls[i].after = Resolved("jump"))
         => Abs(tick.vy) > AirborneSpeed

\* C18: the controller leaves Airborne only at touchdown: the update in which
\* isJumping turns false read the body in contact with the ground, not in the air.
C18_LandingOnlyAtTouchdown ==
  (tick.ran /\ tick.wasJumping /\ ~isJumping)
    => (tick.y <= RestY /\ tick.vy = 0)

\* C19: every update writes to the body the vertical velocity it read, whatever
\* the movement flags, and leaves the body with that vertical velocity plus the
\* jump impulse when it applied one.
C19_VerticalVelocityKept ==
  tick.ran =>
    /\ tick.written.y = tick.vy
    /\ body.vy = tick.vy + (IF tick.impulse THEN JumpDeltaV ELSE 0)

C19_Witness ==
  /\ tick.ran /\ tick.keys.w /\ tick.keys.d
  /\ tick.vy > 0 /\ ~tick.impulse
  /\ tick.written = [x |-> Comp(moveSpeed) \div 2, y |-> tick.vy,
                     z |-> -(Comp(moveSpeed) \div 2)]
  /\ body.vy = tick.vy

ZeroIntention(k) == Len2(Exact(Movement(k))) = 0

\* C20: a step taken with zero horizontal intention (no direction flag, or only
\* cancelling ones) leaves the container's rotation as it was.
C20_HeadingKeptWithoutIntention ==
  [][ZeroIntention(keys) => container'.rotY = container.rotY]_vars

C20_Witness ==
  /\ tick.ran /\ tick.wasMoving /\ ~isMoving
  /\ tick.keys.w /\ tick.keys.s /\ ~tick.keys.a /\ ~tick.keys.d
  /\ container.rotY = 4

\* C21: every step that ends an update leaves the container at the body's
\* translation, which is the one the physics step of that frame produced, and
\* the body's translation changes only by the physics step of a frame (or with
\* the construction of the player).
C21_PositionFromPhysics ==
  [][/\ tick'.ran => (container'.y = body'.y /\ container'.y = tick'.y)
     /\ (body'.y # body.y /\ ~PlayerConstructed)
          => /\ AnimateRan
             /\ \E leaves \in BOOLEAN : body'.y = StepBody(body, leaves).y]_vars

C21_Witness ==
  /\ boot # "none" /\ tick.ran
  /\ ~body.onSlab /\ body.y < RestY
  /\ container.y = body.y

\* The five flags, every value this.keys can take, and the keys of the recognised
\* set of each revision with the flag each one owns.
KeyFlags == {"w", "a", "s", "d", "space"}
KeyStates == [KeyFlags -> BOOLEAN]
EventKeys == MoveKeys \cup JumpKeys

OwnFlag(v, k) ==
  CASE k \in {"w", "a", "s", "d"} -> k
    [] k = " " -> "space"
    [] v = "Player" /\ k = "W" -> "w"
    [] v = "Arrows" /\ k = "ArrowUp" -> "w"
    [] v = "Arrows" /\ k = "ArrowLeft" -> "a"
    [] v = "Arrows" /\ k = "ArrowDown" -> "s"
    [] v = "Arrows" /\ k = "ArrowRight" -> "d"
    [] OTHER -> Nil

\* C22: a key-down of a recognised key sets its own flag and a key-up clears
\* it, the four other flags keeping their values; an event of any other key
\* leaves the five flags as they were.  This holds from the flags of every
\* reachable state and, on a controller not yet updated, from every value the
\* five flags can take.
C22_KeyEventWritesOwnFlagOnly ==
  \A ks \in (IF tick.ran THEN {} ELSE KeyStates) \cup {keys} : \A k \in EventKeys :
    LET down == SetFlag(ks, FlagOf(variant, k), TRUE)
        up == SetFlag(ks, FlagOf(variant, k), FALSE)
        own == OwnFlag(variant, k)
    IN  IF own = Nil THEN down = ks /\ up = ks
        ELSE /\ down[own] /\ ~up[own]
             /\ \A f \in KeyFlags \ {own} : down[f] = ks[f] /\ up[f] = ks[f]

C22_Witness ==
  /\ ~tick.ran
  /\ keys.w /\ keys.d /\ ~keys.a /\ ~keys.s /\ ~keys.space

\* The update started or stopped moving on the ground, without a jump.
OnGroundUpdate == tick.ran /\ ~tick.wasJumping /\ ~isJumping /\ ~tick.impulse
StartedMoving == OnGroundUpdate /\ isMoving /\ ~tick.wasMoving
StoppedMoving == OnGroundUpdate /\ ~isMoving /\ tick.wasMoving

\* C23: an update that starts moving makes the walk clip current when no run
\* clip is stored, and one that stops moving the idle clip, also when the clip is
\* stored under a name that only contains "walk" or "idle".
C23_SubstringClipPlayedOnTransition ==
  /\ (StartedMoving /\ Resolved("run") = NoAction /\ Resolved("walk") # NoAction)
       => anim.current = Resolved("walk")
  /\ (StoppedMoving /\ Resolved("idle") # NoAction)
       => anim.current = Resolved("idle")

\* C24: whenever a key exactly equal to the requested name is stored,
\* playAnimation selects that key's action, wherever the key stands among the
\* stored keys and whatever other keys contain the name; this holds of the
\* calls made so far and of a call with any canonical name.
C24_ExactKeyPreferred ==
  /\ \A i \in DOMAIN anim.calls :
       HasKey(anim.actions, anim.calls[i].name)
         => anim.calls[i].found = anim.calls[i].name
  /\ \A n \in RequestNames :
       HasKey(anim.actions, n) =>
         LET r == PlayAnimation(variant, [anim EXCEPT !.calls = <<>>], n)
         IN  /\ r.current = ActionAt(anim.actions, n)
             /\ \A i \in DOMAIN r.calls : r.calls[i].found = n

\* The clips of a list that are named idle in some letter case.
IdleClips(clips) == {i \in DOMAIN clips : ToLowerCase(clips[i]) = "idle"}

\* C25: the constructor leaves current the action of the supplied clip named
\* idle (in any letter case), else the action of the first supplied clip,
\* started without a cross-fade; with no clips no action is current, then and
\* after every later update, and no playAnimation call does anything.
C25_ConstructedCurrentAction ==
  /\ \A clips \in NamedClipLists \cup ClipLists :
       LET a == SetupAnimations(variant, clips)
           last == CHOOSE i \in IdleClips(clips) : \A j \in IdleClips(clips) : j <= i
       IN  /\ a.current = IF clips = <<>> THEN NoAction
                          ELSE IF IdleClips(clips) # {} THEN ClipAction(1, clips[last])
                          ELSE ClipAction(1, clips[1])
           /\ \A i \in DOMAIN a.calls : a.calls[i].fx # "fade"
  /\ anim.actions = <<>>
       => /\ anim.current = NoAction
          /\ \A i \in DOMAIN anim.calls : anim.calls[i].fx = "drop"

\* C26: the current action is null or an action stored in this.actions that the
\* present mixer made, also after the loads that replace the model, its mixer
\* and the stored actions.
C26_CurrentActionStored ==
  \/ anim.current = NoAction
  \/ /\ \E i \in DOMAIN anim.actions : anim.actions[i].action = anim.current
     /\ anim.current.mixer = anim.mixer

\* C27: in every bootstrap at most one Player is ever constructed (one pair of
\* key listeners, one player body), and at most one init() call is ever made,
\* whatever the order in which the loads end.
C27_InitAtMostOnce ==
  game.inits + game.players <= 1

\* The step ran a frame callback.
CallbackRan == loop.running > 0 /\ loop'.running = loop.running - 1

\* C28: every animate call, the first one of init() and every frame callback,
\* schedules exactly one next callback, also when its work throws; so once a
\* player is constructed a callback is always scheduled or running; and a
\* bootstrap that catches the error still renders the scene in that frame.
C28_LoopNeverStops ==
  [][/\ (CallbackRan \/ PlayerConstructed) => loop'.pending = loop.pending + 1
     /\ game'.players > 0 => loop'.pending + loop'.running >= 1
     /\ (frame'.threw # "none" /\ boot \in CatchingBoots) => frame'.rendered]_vars

C28_Witness ==
  /\ boot = "part_005" /\ frame.threw = "update" /\ ~frame.rendered
  /\ loop.running = 0 /\ loop.pending >= 1 /\ loop.clock > 0

\* C29: once a startup has failed, the loading element carries the error
\* message and is shown: it is not left with the loading text, and nothing has
\* hidden it.
C29_StartupFailureReported ==
  game.failed => (game.content = "error" /\ game.display = "block")

\* The two physical keys of the forward flag (part_001), a key event of one of
\* them, and the event sequences a keyboard can produce: a key-up only of a key
\* that is down (a key-down of a key that is down is the host's auto-repeat).
AliasKeys == {"w", "ArrowUp"}
AliasEvents == [down : BOOLEAN, key : AliasKeys]
EventSeqs == UNION {[1..n -> AliasEvents] : n \in 0..MaxEvents}

RECURSIVE HeldAfter(_)
\* The physical keys that are down after the events.
HeldAfter(es) ==
  IF es = <<>> THEN {}
  ELSE LET e == es[Len(es)]
           h == HeldAfter(SubSeq(es, 1, Len(es) - 1))
       IN  IF e.down THEN h \cup {e.key} ELSE h \ {e.key}

Producible(es) ==
  \A i \in DOMAIN es :
    ~es[i].down => es[i].key \in HeldAfter(SubSeq(es, 1, i - 1))

RECURSIVE KeysAfter(_, _, _)
\* this.keys after onKeyDown / onKeyUp have handled the events in turn.
KeysAfter(v, ks, es) ==
  IF es = <<>> THEN ks
  ELSE KeysAfter(v, SetFlag(ks, FlagOf(v, Head(es).key), Head(es).down), Tail(es))

\* C30: in the revision with arrow-key aliases, after any producible sequence of
\* key events on a fresh controller the forward flag is true exactly when the
\* letter or the arrow key is down.
C30_FlagTrueWhileAliasHeld ==
  variant = "Arrows" =>
    \A es \in EventSeqs :
      Producible(es) => (KeysAfter(variant, NoKeys, es).w <=> HeldAfter(es) # {})

====
